---- MODULE Spec2Model ----
(***************************************************************************)
(* In-place malloc/free over a 4 KB arena (src/alloc.cpp).                 *)
(*                                                                         *)
(* The arena is the byte array simulated_heap.  Byte 0 is the head cell of *)
(* the free list.  A block is named by its offset in 16-byte chunks.       *)
(*   allocated block: byte 0 = chunk count, bytes 1.. = payload            *)
(*   free block:      byte 0 = prev, byte 1 = chunk count, last byte = next*)
(* A pointer is modelled as its byte offset from simulated_heap.           *)
(***************************************************************************)
EXTENDS Integers, FiniteSets, Sequences, TLC

VARIABLES simulated_heap, live, ret, op, arg, status, build, nops, mode

vars == <<simulated_heap, live, ret, op, arg, status, build, nops, mode>>

(***************************************************************************)
(* Program constants.                                                      *)
(***************************************************************************)
HEAP_SIZE == 4096
BLOCK_SIZE == 16
NO_FREE_BLOCKS == 0
NULL == 0
INT_MAX == 2147483647

(***************************************************************************)
(* Bounds of the model.                                                    *)
(***************************************************************************)
\* The calls of a run that change the arena.  A call that returns NULL is not
\* counted, nor are the calls of the caller that only acquires large regions:
\* it runs out of arena by itself.
MaxOps == 4

\* Request sizes the callers use (the argument of rdx_malloc is an int).
Sizes == {0, 1, 16, 4079, 4080, INT_MAX}
\* Request sizes used by a caller that only acquires.
DrainSizes == {n \in Sizes : n >= 4079}
\* The bytes a caller writes into its payload.
Fills == {255}
\* How a build treats signed overflow: two's-complement wrap-around (the
\* default code generation) or a trap (-ftrapv, -fsanitize).  Which one the
\* build is shows at the first overflow; until then build is "any".
Builds == {"wrap", "trap"}

Byte == 0..255
Heap == 0..(HEAP_SIZE - 1)

(***************************************************************************)
(* C integer conversions.                                                  *)
(***************************************************************************)
\* (uint8_t) x
U8(x) == x % 256
\* (uint16_t) x
U16(x) == x % 65536
\* a + b in int, a >= 0, b >= 0: <<value after wrap-around, overflowed>>
AddInt(a, b) ==
    IF a > INT_MAX - b
    THEN <<(a - INT_MAX - 1) + (b - INT_MAX - 1), TRUE>>
    ELSE <<a + b, FALSE>>
\* a - b in int, a >= 0: <<value after wrap-around, overflowed>>
SubInt(a, b) ==
    IF b < 0 /\ a > INT_MAX + b
    THEN <<((a - INT_MAX) - 1 - b) - INT_MAX - 1, TRUE>>
    ELSE <<a - b, FALSE>>

(***************************************************************************)
(* The machine a call runs on: the arena and how the call is going.        *)
(*   "ok"    running                                                       *)
(*   "abort" an assert failed, or signed overflow trapped                  *)
(*   "ub"    a store outside simulated_heap (undefined behaviour; for the  *)
(*           far-away addresses met here the process is killed)            *)
(*   "hang"  the traversal loop never ends                                 *)
(***************************************************************************)
Machine(h) == [h |-> h, st |-> "ok"]
Stop(m, why) == IF m.st = "ok" THEN [m EXCEPT !.st = why] ELSE m

\* simulated_heap[index] = v
Store(m, index, v) ==
    IF m.st # "ok" THEN m
    ELSE IF index \in Heap THEN [m EXCEPT !.h[index] = v]
    ELSE Stop(m, "ub")

\* The assert of read_unsigned.
ReadOK(index) == 0 <= U16(index) /\ U16(index) < HEAP_SIZE
AssertRead(m, index) == IF ReadOK(index) THEN m ELSE Stop(m, "abort")

read_unsigned(h, index) == IF ReadOK(index) THEN h[U16(index)] ELSE 0

\* Mutant: the size is read from the block's first byte, where an allocated
\* block keeps it, instead of its second.
get_block_bytes_FirstByte(h, offset) ==
    read_unsigned(h, offset * BLOCK_SIZE) * BLOCK_SIZE

get_block_bytes(h, offset) == read_unsigned(h, 1 + offset * BLOCK_SIZE) * BLOCK_SIZE

get_next(h, offset) ==
    read_unsigned(h, -1 + get_block_bytes(h, offset) + offset * BLOCK_SIZE)

get_prev(h, offset) == read_unsigned(h, offset * BLOCK_SIZE)

\* The reads get_next makes, with their asserts.
AssertNext(m, offset) ==
    LET m1 == AssertRead(m, 1 + offset * BLOCK_SIZE)
    IN  IF m1.st # "ok" THEN m1
        ELSE AssertRead(m1, -1 + get_block_bytes(m.h, offset) + offset * BLOCK_SIZE)

update_next(m, offset, new_next) ==
    LET m1 == AssertRead(m, 1 + offset * BLOCK_SIZE)
    IN  IF m1.st # "ok" THEN m1
        ELSE Store(m1, -1 + get_block_bytes(m1.h, offset) + offset * BLOCK_SIZE, new_next)

update_prev(m, offset, new_prev) == Store(m, offset * BLOCK_SIZE, new_prev)

update_size(m, offset, chunks) == Store(m, 1 + offset * BLOCK_SIZE, chunks)

(***************************************************************************)
(* init_heap, on the zero-initialised global array.                        *)
(***************************************************************************)
init_heap ==
    [i \in Heap |->
        IF i = 0 THEN 1
        ELSE IF i = BLOCK_SIZE + 1 THEN 255
        ELSE 0]

(***************************************************************************)
(* rdx_free(ptr), ptr given as its offset from simulated_heap.             *)
(***************************************************************************)
\* Mutant: the head cell is overwritten before the old head is read, so the
\* block's next pointer names the block itself.
rdx_free_HeadFirst(m, ptr) ==
    IF m.st # "ok" THEN m
    ELSE IF (ptr - 1) \notin Heap THEN Stop(m, "ub")
    ELSE
    LET chunks == m.h[ptr - 1]
        offset == U8((ptr - 1) \div 16)
        m1     == Store(Store(m, offset * BLOCK_SIZE + 1, chunks), 0, offset)
        head   == read_unsigned(m1.h, 0)
        m2     == update_next(m1, offset, head)
        m3     == update_prev(m2, offset, 0)
    IN  update_size(m3, offset, chunks)

\* Mutant: the head cell is left as it was, so the released block is not on
\* the list.
rdx_free_NoHead(m, ptr) ==
    IF m.st # "ok" THEN m
    ELSE IF (ptr - 1) \notin Heap THEN Stop(m, "ub")
    ELSE
    LET chunks == m.h[ptr - 1]
        offset == U8((ptr - 1) \div 16)
        m1     == Store(m, offset * BLOCK_SIZE + 1, chunks)
        head   == read_unsigned(m1.h, 0)
        m2     == update_next(m1, offset, head)
        m3     == update_prev(m2, offset, 0)
    IN  update_size(m3, offset, chunks)

\* Mutant: the released block's next pointer is not set to the old head.
rdx_free_NoNext(m, ptr) ==
    IF m.st # "ok" THEN m
    ELSE IF (ptr - 1) \notin Heap THEN Stop(m, "ub")
    ELSE
    LET chunks == m.h[ptr - 1]
        offset == U8((ptr - 1) \div 16)
        m1     == Store(m, offset * BLOCK_SIZE + 1, chunks)
        m3     == update_prev(m1, offset, 0)
        m4     == update_size(m3, offset, chunks)
    IN  Store(m4, 0, offset)

\* Mutant: the chunk count is not rewritten at byte 1 of the released block.
rdx_free_NoSize(m, ptr) ==
    IF m.st # "ok" THEN m
    ELSE IF (ptr - 1) \notin Heap THEN Stop(m, "ub")
    ELSE
    LET offset == U8((ptr - 1) \div 16)
        head   == read_unsigned(m.h, 0)
        m2     == update_next(m, offset, head)
        m3     == update_prev(m2, offset, 0)
    IN  Store(m3, 0, offset)

\* Mutant: the old head's prev is set to the released block, as a doubly
\* linked list would have it.
rdx_free_SetsPrev(m, ptr) ==
    IF m.st # "ok" THEN m
    ELSE IF (ptr - 1) \notin Heap THEN Stop(m, "ub")
    ELSE
    LET chunks == m.h[ptr - 1]
        offset == U8((ptr - 1) \div 16)
        m1     == Store(m, offset * BLOCK_SIZE + 1, chunks)
        head   == read_unsigned(m1.h, 0)
        m2     == update_next(m1, offset, head)
        m3     == update_prev(m2, offset, 0)
        m4     == update_size(m3, offset, chunks)
        m5     == IF head # 0 THEN update_prev(m4, head, offset) ELSE m4
    IN  Store(m5, 0, offset)

rdx_free(m, ptr) ==
    IF m.st # "ok" THEN m
    ELSE IF (ptr - 1) \notin Heap THEN Stop(m, "ub")
    ELSE
    LET chunks == m.h[ptr - 1]
        offset == U8((ptr - 1) \div 16)
        m1     == Store(m, offset * BLOCK_SIZE + 1, chunks)
        head   == read_unsigned(m1.h, 0)
        m2     == update_next(m1, offset, head)
        m3     == update_prev(m2, offset, 0)
        m4     == update_size(m3, offset, chunks)
    IN  Store(m4, 0, offset)

(***************************************************************************)
(* rdx_malloc(bytes).                                                      *)
(***************************************************************************)
\* bytes++ and the rounding up to a multiple of BLOCK_SIZE, in int.  Signed
\* overflow is undefined: the build decides between wrap-around and a trap.
\* Mutant: the byte for the header is not added before rounding.
RoundUp_NoHeaderByte(n, bld) ==
    LET rnd == IF n % BLOCK_SIZE # 0
               THEN AddInt(n, BLOCK_SIZE - (n % BLOCK_SIZE))
               ELSE <<n, FALSE>>
    IN  [bytes |-> rnd[1],
         st    |-> IF rnd[2] /\ bld = "trap" THEN "abort" ELSE "ok",
         ovf   |-> rnd[2]]

RoundUp(n, bld) ==
    LET inc == AddInt(n, 1)
        b   == inc[1]
        rnd == IF b % BLOCK_SIZE # 0
               THEN AddInt(b, BLOCK_SIZE - (b % BLOCK_SIZE))
               ELSE <<b, FALSE>>
        ovf == IF inc[2] THEN TRUE ELSE rnd[2]
    IN  [bytes |-> IF inc[2] THEN b ELSE rnd[1],
         st    |-> IF ovf /\ bld = "trap" THEN "abort" ELSE "ok",
         ovf   |-> ovf]

\* Mutant: the head cell is not cleared when the only free block is taken.
Unlink_KeepsHead(m, prev, next) ==
    LET m1 == IF prev # 0 THEN update_next(m, prev, next)
              ELSE IF next # 0 THEN Store(m, 0, next)
              ELSE m
    IN  IF next # 0 THEN update_prev(m1, next, prev) ELSE m1

\* Mutant: the block is not taken out of the list at all.
Unlink_Skip(m, prev, next) == m

\* Take a block with neighbours prev and next out of the free list.
Unlink(m, prev, next) ==
    LET m1 == IF prev # 0 THEN update_next(m, prev, next)
              ELSE IF next # 0 THEN Store(m, 0, next)
              ELSE Store(m, 0, NO_FREE_BLOCKS)
    IN  IF next # 0 THEN update_prev(m1, next, prev) ELSE m1

\* Mutant: the header gets the chunk count of the whole block found, not of
\* the part handed out.
TakeBlock_FullHeader(h, bytes, offset, bld) ==
    LET block_bytes == get_block_bytes(h, offset)
        prev == get_prev(h, offset)
        next == get_next(h, offset)
        m0 == AssertNext(AssertRead(Machine(h), offset * BLOCK_SIZE), offset)
        m2 == Unlink(m0, prev, next)
        m3 == Store(m2, offset * BLOCK_SIZE, U8(block_bytes \div 16))
        left == SubInt(block_bytes, bytes)
        leftover_bytes == left[1]
        chunks == U8(leftover_bytes \div 16)
        m4 == IF left[2] /\ bld = "trap" THEN Stop(m3, "abort")
              ELSE IF leftover_bytes % BLOCK_SIZE # 0 THEN Stop(m3, "abort")
              ELSE Store(m3, offset * BLOCK_SIZE + bytes, chunks)
        m5 == IF block_bytes > bytes
              THEN rdx_free(m4, offset * BLOCK_SIZE + bytes + 1)
              ELSE m3
    IN  [h |-> m5.h, st |-> m5.st, ret |-> offset * BLOCK_SIZE + 1]

\* Mutant: the address of the header byte is returned, not the address of
\* the byte after it.
TakeBlock_ReturnsHeader(h, bytes, offset, bld) ==
    LET block_bytes == get_block_bytes(h, offset)
        prev == get_prev(h, offset)
        next == get_next(h, offset)
        m0 == AssertNext(AssertRead(Machine(h), offset * BLOCK_SIZE), offset)
        m2 == Unlink(m0, prev, next)
        m3 == Store(m2, offset * BLOCK_SIZE, U8(bytes \div 16))
        left == SubInt(block_bytes, bytes)
        leftover_bytes == left[1]
        chunks == U8(leftover_bytes \div 16)
        m4 == IF left[2] /\ bld = "trap" THEN Stop(m3, "abort")
              ELSE IF leftover_bytes % BLOCK_SIZE # 0 THEN Stop(m3, "abort")
              ELSE Store(m3, offset * BLOCK_SIZE + bytes, chunks)
        m5 == IF block_bytes > bytes
              THEN rdx_free(m4, offset * BLOCK_SIZE + bytes + 1)
              ELSE m3
    IN  [h |-> m5.h, st |-> m5.st, ret |-> offset * BLOCK_SIZE]

\* The body of `if (block_bytes >= bytes)`: unlink the block at offset, write
\* its header, split off the remainder, return the payload address.
TakeBlock(h, bytes, offset, bld) ==
    LET block_bytes == get_block_bytes(h, offset)
        prev == get_prev(h, offset)
        next == get_next(h, offset)
        m0 == AssertNext(AssertRead(Machine(h), offset * BLOCK_SIZE), offset)
        m2 == Unlink(m0, prev, next)
        m3 == Store(m2, offset * BLOCK_SIZE, U8(bytes \div 16))
        left == SubInt(block_bytes, bytes)
        leftover_bytes == left[1]
        chunks == U8(leftover_bytes \div 16)
        m4 == IF left[2] /\ bld = "trap" THEN Stop(m3, "abort")
              ELSE IF leftover_bytes % BLOCK_SIZE # 0 THEN Stop(m3, "abort")
              ELSE Store(m3, offset * BLOCK_SIZE + bytes, chunks)
        m5 == IF block_bytes > bytes
              THEN rdx_free(m4, offset * BLOCK_SIZE + bytes + 1)
              ELSE m3
    IN  [h |-> m5.h, st |-> m5.st, ret |-> offset * BLOCK_SIZE + 1]

\* while (offset != 0) { ... }.  The loop changes nothing until it finds a
\* block, so a walk longer than the number of slots has revisited a block
\* and never ends.
\* Mutant: a failed search empties the free list.
NoFit_ClearsHead(h) ==
    [h |-> [h EXCEPT ![0] = NO_FREE_BLOCKS], st |-> "ok", ret |-> NULL]

\* return NULL
NoFit(h) == [h |-> h, st |-> "ok", ret |-> NULL]

\* Mutant: a block is taken only when it is strictly longer than needed.
RECURSIVE WalkList_Strict(_, _, _, _, _)
WalkList_Strict(h, bytes, offset, bld, fuel) ==
    IF offset = 0 THEN NoFit(h)
    ELSE IF fuel = 0 THEN [h |-> h, st |-> "hang", ret |-> NULL]
    ELSE IF ~ReadOK(1 + offset * BLOCK_SIZE) THEN [h |-> h, st |-> "abort", ret |-> NULL]
    ELSE IF get_block_bytes(h, offset) > bytes THEN TakeBlock(h, bytes, offset, bld)
    ELSE IF AssertNext(Machine(h), offset).st # "ok"
         THEN [h |-> h, st |-> "abort", ret |-> NULL]
    ELSE WalkList_Strict(h, bytes, get_next(h, offset), bld, fuel - 1)

RECURSIVE WalkList(_, _, _, _, _)
WalkList(h, bytes, offset, bld, fuel) ==
    IF offset = 0 THEN NoFit(h)
    ELSE IF fuel = 0 THEN [h |-> h, st |-> "hang", ret |-> NULL]
    ELSE IF ~ReadOK(1 + offset * BLOCK_SIZE) THEN [h |-> h, st |-> "abort", ret |-> NULL]
    ELSE IF get_block_bytes(h, offset) >= bytes THEN TakeBlock(h, bytes, offset, bld)
    ELSE IF AssertNext(Machine(h), offset).st # "ok"
         THEN [h |-> h, st |-> "abort", ret |-> NULL]
    ELSE WalkList(h, bytes, get_next(h, offset), bld, fuel - 1)

rdx_malloc(h, n, bld) ==
    LET r == RoundUp(n, bld)
    IN  IF r.st # "ok" THEN [h |-> h, st |-> r.st, ret |-> NULL]
        ELSE WalkList(h, r.bytes, read_unsigned(h, 0), bld, HEAP_SIZE \div BLOCK_SIZE)

(***************************************************************************)
(* The callers.  live holds the regions a caller owns, oldest first: the   *)
(* address rdx_malloc returned and the size it asked for.                  *)
(***************************************************************************)
TypeOK ==
    /\ simulated_heap \in [Heap -> Byte]
    /\ \A i \in DOMAIN live : live[i].ptr \in Heap /\ live[i].n \in Sizes
    /\ ret \in Heap
    /\ op \in {"init", "malloc", "free", "write"}
    /\ status \in {"ok", "abort", "ub", "hang"}
    /\ build \in Builds \cup {"any"}
    /\ nops \in 0..MaxOps
    /\ mode \in {"mixed", "drain"}

Init ==
    /\ simulated_heap = init_heap
    /\ live = <<>>
    /\ ret = NULL
    /\ op = "init"
    /\ arg = 0
    /\ status = "ok"
    /\ build = "any"
    /\ nops = 0
    /\ mode \in {"mixed", "drain"}

\* Does rdx_malloc(n) overflow an int?
Overflows(n) == RoundUp(n, "wrap").ovf

\* p = rdx_malloc(n)
Call_malloc(n) ==
    \E bld \in Builds :
    LET r == rdx_malloc(simulated_heap, n, bld)
    IN  /\ IF build = "any" THEN Overflows(n) \/ bld = "wrap" ELSE bld = build
        /\ build' = IF Overflows(n) THEN bld ELSE build
        /\ simulated_heap' = r.h
        /\ status' = r.st
        /\ ret' = IF r.st = "ok" THEN r.ret ELSE NULL
        /\ live' = IF r.st = "ok" /\ r.ret # NULL
                   THEN Append(live, [ptr |-> r.ret, n |-> n])
                   ELSE live
        /\ op' = "malloc"
        /\ arg' = n

Malloc ==
    /\ status = "ok"
    /\ mode = "mixed"
    /\ \E n \in Sizes : Call_malloc(n)
    /\ nops' = IF simulated_heap' = simulated_heap THEN nops ELSE nops + 1
    /\ nops' <= MaxOps
    /\ UNCHANGED mode

\* s without its i-th element.
Remove(s, i) == [k \in 1..(Len(s) - 1) |-> IF k < i THEN s[k] ELSE s[k + 1]]

\* rdx_free(p) for a region the caller owns.
Free ==
    /\ status = "ok"
    /\ mode = "mixed"
    /\ nops < MaxOps
    /\ \E i \in DOMAIN live :
        LET m == rdx_free(Machine(simulated_heap), live[i].ptr)
        IN  /\ simulated_heap' = m.h
            /\ status' = m.st
            /\ live' = Remove(live, i)
            /\ arg' = live[i].ptr
    /\ op' = "free"
    /\ ret' = NULL
    /\ nops' = nops + 1
    /\ UNCHANGED <<build, mode>>

\* Does the region p hold v in each of the n bytes asked for?
Filled(h, p, v) == \A i \in p.ptr..(p.ptr + p.n - 1) : h[i] = v

\* The caller fills the n bytes it asked for, as main does after rdx_malloc.
Write ==
    /\ status = "ok"
    /\ mode = "mixed"
    /\ op = "malloc"
    /\ live # <<>>
    /\ \E v \in Fills :
        LET p == live[Len(live)]
        IN  /\ p.ptr = ret
            /\ p.n > 0
            /\ ~Filled(simulated_heap, p, v)
            /\ simulated_heap' =
                  [i \in Heap |-> IF p.ptr <= i /\ i < p.ptr + p.n
                                  THEN v ELSE simulated_heap[i]]
    /\ op' = "write"
    /\ ret' = NULL
    /\ arg' = 0
    /\ UNCHANGED <<live, status, build, nops, mode>>

\* A caller that only acquires.
Drain ==
    /\ status = "ok"
    /\ mode = "drain"
    /\ \E n \in DrainSizes : Call_malloc(n)
    /\ UNCHANGED <<nops, mode>>

Next == Malloc \/ Free \/ Write \/ Drain

Spec == Init /\ [][Next]_vars

\* A caller that keeps calling rdx_malloc is never stopped from calling it.
FairSpec == Spec /\ WF_vars(Drain)

(***************************************************************************)
(* What an observer reads off the arena.                                   *)
(***************************************************************************)
\* The blocks met by following next from `offset`, up to the sentinel 0 or
\* to the first block met twice.
RECURSIVE ListFrom(_, _, _)
ListFrom(h, offset, seen) ==
    IF offset = 0 \/ offset \in seen THEN <<>>
    ELSE <<offset>> \o ListFrom(h, get_next(h, offset), seen \cup {offset})

FreeList == ListFrom(simulated_heap, simulated_heap[0], {})

\* Does following next from `offset` reach the sentinel 0 without meeting a
\* block twice?
RECURSIVE ReachesEnd(_, _, _)
ReachesEnd(h, offset, seen) ==
    IF offset = 0 THEN TRUE
    ELSE IF offset \in seen THEN FALSE
    ELSE ReachesEnd(h, get_next(h, offset), seen \cup {offset})

\* A live region's block: first byte, chunk count in its header, length.
BlockStart(p) == p.ptr - 1
HeaderChunks(h, p) == h[p.ptr - 1]
LiveBytes(h, p) == HeaderChunks(h, p) * BLOCK_SIZE
\* Do the byte ranges [a, a + la) and [b, b + lb) share a byte?
Overlap(a, la, b, lb) == a < b + lb /\ b < a + la

RECURSIVE SumLive(_, _)
SumLive(h, s) ==
    IF s = <<>> THEN 0 ELSE LiveBytes(h, Head(s)) + SumLive(h, Tail(s))

RECURSIVE SumFree(_, _)
SumFree(h, s) ==
    IF s = <<>> THEN 0 ELSE get_block_bytes(h, Head(s)) + SumFree(h, Tail(s))

(***************************************************************************)
(* C1. No two live allocated blocks share an arena byte: for live blocks   *)
(* starting at 16*i and 16*j with header chunk counts ci and cj, the       *)
(* ranges [16*i, 16*i + 16*ci) and [16*j, 16*j + 16*cj) are disjoint.      *)
(***************************************************************************)
C1_NoOverlap ==
    \A i, j \in DOMAIN live :
        i < j => ~Overlap(BlockStart(live[i]), LiveBytes(simulated_heap, live[i]),
                          BlockStart(live[j]), LiveBytes(simulated_heap, live[j]))

\* Two regions are live and a released block is back on the free list.
C1_Witness ==
    /\ status = "ok"
    /\ Len(live) >= 2
    /\ Len(FreeList) >= 2
    /\ \A i \in DOMAIN live : HeaderChunks(simulated_heap, live[i]) >= 1

(***************************************************************************)
(* C2. Round trip: the n payload bytes of a live region are left unchanged *)
(* by every later rdx_malloc call and by every rdx_free call on another    *)
(* live address.                                                           *)
(***************************************************************************)
PayloadKept(p) ==
    \A k \in p.ptr..(p.ptr + p.n - 1) :
        k \in Heap /\ simulated_heap'[k] = simulated_heap[k]

C2_RoundTrip ==
    [][(op' \in {"malloc", "free"}) =>
          \A i \in DOMAIN live :
              (op' = "free" /\ arg' = live[i].ptr) \/ PayloadKept(live[i])]_vars

\* A region the caller filled is still live, and filled, after a later
\* rdx_malloc returned another region.
C2_Witness ==
    /\ op = "malloc"
    /\ status = "ok"
    /\ ret # NULL
    /\ \E i \in DOMAIN live :
          /\ live[i].ptr # ret
          /\ live[i].n > 0
          /\ \E v \in Fills : Filled(simulated_heap, live[i], v)

(***************************************************************************)
(* C3. Conservation: the lengths of the live allocated blocks, plus the    *)
(* lengths of the blocks reachable from the free-list head, plus the 16    *)
(* bytes of slot 0, make HEAP_SIZE.                                        *)
(***************************************************************************)
C3_Conservation ==
    status = "ok" =>
        SumLive(simulated_heap, live) + SumFree(simulated_heap, FreeList) + BLOCK_SIZE
            = HEAP_SIZE

(***************************************************************************)
(* C4. Link consistency: for every block A reachable from the head cell,   *)
(* next(A) = B and B # 0 imply prev(B) = A, and the block the head cell    *)
(* names has prev = 0.                                                     *)
(***************************************************************************)
C4_LinksConsistent ==
    status = "ok" =>
        /\ simulated_heap[0] # 0 => get_prev(simulated_heap, simulated_heap[0]) = 0
        /\ \A k \in DOMAIN FreeList :
              LET A == FreeList[k]
                  B == get_next(simulated_heap, A)
              IN  B # 0 => get_prev(simulated_heap, B) = A

(***************************************************************************)
(* C5. Acyclicity: following next from the head cell reaches the sentinel  *)
(* 0 without meeting a block twice, so the traversal loop of rdx_malloc    *)
(* ends, with an address or with NULL.                                     *)
(***************************************************************************)
C5_Acyclic ==
    /\ ReachesEnd(simulated_heap, simulated_heap[0], {})
    /\ status # "hang"

\* Three blocks are on the free list and rdx_malloc has just walked it.
C5_Witness ==
    /\ status = "ok"
    /\ op = "malloc"
    /\ Len(FreeList) >= 3

\* The chunks a request of n bytes needs: n + 1 rounded up to a multiple of
\* 16, in chunks.
NeededChunks(n) == (n \div BLOCK_SIZE) + 1

\* Is a block of at least `chunks` chunks reachable from the head cell?
FitExists(h, chunks) ==
    LET list == ListFrom(h, h[0], {})
    IN  \E k \in DOMAIN list : h[1 + list[k] * BLOCK_SIZE] >= chunks

(***************************************************************************)
(* C6. rdx_malloc(n), n >= 0, returns NULL if and only if no block         *)
(* reachable from the free-list head has length >= needed, where needed is *)
(* n + 1 rounded up to a multiple of 16; otherwise it returns a non-null   *)
(* address.                                                                *)
(***************************************************************************)
C6_NullIffNoFit ==
    [][op' = "malloc" =>
          /\ status' = "ok"
          /\ ret' = NULL <=> ~FitExists(simulated_heap, NeededChunks(arg'))]_vars

(***************************************************************************)
(* C7. A failing rdx_malloc (NULL result) leaves every arena byte          *)
(* unchanged, head cell, links and size bytes included, and the live       *)
(* regions are the same before and after.                                  *)
(***************************************************************************)
C7_FailureChangesNothing ==
    [][(op' = "malloc" /\ status' = "ok" /\ ret' = NULL) =>
          /\ simulated_heap' = simulated_heap
          /\ live' = live]_vars

\* rdx_malloc has walked a non-empty free list, found no fit and returned
\* NULL while the caller owns a region.
C7_Witness ==
    /\ op = "malloc"
    /\ status = "ok"
    /\ ret = NULL
    /\ Len(FreeList) >= 2
    /\ live # <<>>

(***************************************************************************)
(* C8. Exhaustion: a run that from some point on only calls rdx_malloc,    *)
(* with any non-negative sizes, eventually gets NULL, and no address       *)
(* returned before that denotes a block overlapping another live block.    *)
(***************************************************************************)
C8_Exhaustion ==
    /\ (mode = "drain") ~> (op = "malloc" /\ status = "ok" /\ ret = NULL)
    /\ [](\A i, j \in DOMAIN live :
            i < j => ~Overlap(BlockStart(live[i]), LiveBytes(simulated_heap, live[i]),
                              BlockStart(live[j]), LiveBytes(simulated_heap, live[j])))

(***************************************************************************)
(* C9. Scenario B.  As claimed: on a fresh arena rdx_malloc(4080)          *)
(* succeeds, and a following rdx_malloc(1) with no release in between      *)
(* fails.  On the code: rdx_malloc(4080) needs 4096 bytes and fails; it is *)
(* rdx_malloc(4079) that succeeds and leaves nothing for rdx_malloc(1).    *)
(***************************************************************************)
\* The arena is as init_heap left it.
Fresh == simulated_heap = init_heap /\ live = <<>> /\ status = "ok"
\* rdx_malloc(n) on the fresh arena has returned p.
FirstCall(n, p) ==
    /\ nops = 1 /\ op = "malloc" /\ arg = n /\ status = "ok" /\ ret = p
    /\ live = <<[ptr |-> p, n |-> n]>>
\* The step is the call rdx_malloc(n).
NextCall(n) == op' = "malloc" /\ arg' = n

C9_ScenarioB_Original ==
    /\ [][(Fresh /\ NextCall(4080)) => (status' = "ok" /\ ret' # NULL)]_vars
    /\ [][(FirstCall(4080, BLOCK_SIZE + 1) /\ NextCall(1)) =>
            (status' = "ok" /\ ret' = NULL)]_vars

C9_ScenarioB ==
    /\ [][(Fresh /\ NextCall(4080)) => (status' = "ok" /\ ret' = NULL)]_vars
    /\ [][(Fresh /\ NextCall(4079)) => (status' = "ok" /\ ret' # NULL)]_vars
    /\ [][(FirstCall(4079, BLOCK_SIZE + 1) /\ NextCall(1)) =>
            (status' = "ok" /\ ret' = NULL)]_vars

\* rdx_malloc(4079) on the fresh arena, then rdx_malloc(1), which failed.
C9_Witness ==
    /\ nops = 1
    /\ mode = "mixed"
    /\ op = "malloc"
    /\ arg = 1
    /\ status = "ok"
    /\ ret = NULL
    /\ live = <<[ptr |-> BLOCK_SIZE + 1, n |-> 4079]>>

(***************************************************************************)
(* C10. Index-space overflow: every rdx_malloc(n) whose needed length      *)
(* exceeds 4080 bytes (more than 255 chunks) returns NULL, and every chunk *)
(* count stored is the block's true length / 16 and lies in 1..255.        *)
(***************************************************************************)
C10_OverflowFails ==
    /\ [][(op' = "malloc" /\ NeededChunks(arg') > 255) =>
            (status' = "ok" /\ ret' = NULL)]_vars
    /\ [](status = "ok" =>
            /\ \A i \in DOMAIN live : HeaderChunks(simulated_heap, live[i]) \in 1..255
            /\ \A k \in DOMAIN FreeList :
                  simulated_heap[1 + FreeList[k] * BLOCK_SIZE] \in 1..255)

(***************************************************************************)
(* C11. LIFO reuse: when rdx_free(P) of a live address P is immediately    *)
(* followed by rdx_malloc(m) whose needed length does not exceed the       *)
(* length of P's block, the call succeeds and returns an address inside    *)
(* the byte range P's block occupied.                                      *)
(***************************************************************************)
\* After rdx_free(P) the chunk count of P's block is in its byte 1, which is
\* the byte P names.
C11_LifoReuse ==
    [][(op = "free" /\ status = "ok" /\ op' = "malloc"
            /\ NeededChunks(arg') <= simulated_heap[arg]) =>
          /\ status' = "ok"
          /\ ret' # NULL
          /\ arg - 1 <= ret'
          /\ ret' < arg - 1 + simulated_heap[arg] * BLOCK_SIZE]_vars

\* init; P = rdx_malloc(16); rdx_free(P); rdx_malloc(1) has returned P and
\* split P's two chunks.
C11_Witness ==
    /\ nops = 3
    /\ op = "malloc"
    /\ arg = 1
    /\ status = "ok"
    /\ ret = BLOCK_SIZE + 1
    /\ live = <<[ptr |-> BLOCK_SIZE + 1, n |-> 1]>>
    /\ FreeList = <<2, 3>>
    /\ get_block_bytes(simulated_heap, 2) = BLOCK_SIZE

(***************************************************************************)
(* C12. Scenario C.  As claimed: after init; A = rdx_malloc(16);           *)
(* B = rdx_malloc(16); rdx_free(A); rdx_free(B) the free list contains two *)
(* blocks, with B's block at the head.  On the code: it contains three     *)
(* blocks, B's at the head, then A's, then the 251-chunk remainder that    *)
(* the second rdx_malloc split off.                                        *)
(***************************************************************************)
\* The scenario has run.  Four arena-changing calls that end with
\* rdx_free(49) and leave no live region are two acquisitions and two
\* releases; 49 is returned only while a two-chunk block at 16 is live, and
\* byte 1 of each released block holds the chunk count of its request.
ScenarioC_Done ==
    /\ nops = 4
    /\ op = "free"
    /\ arg = 3 * BLOCK_SIZE + 1
    /\ status = "ok"
    /\ live = <<>>
    /\ simulated_heap[BLOCK_SIZE + 1] = NeededChunks(16)
    /\ simulated_heap[3 * BLOCK_SIZE + 1] = NeededChunks(16)

C12_ScenarioC_Original ==
    ScenarioC_Done => (Len(FreeList) = 2 /\ simulated_heap[0] = 3)

C12_ScenarioC ==
    ScenarioC_Done =>
        /\ FreeList = <<3, 1, 5>>
        /\ get_block_bytes(simulated_heap, 3) = 2 * BLOCK_SIZE
        /\ get_block_bytes(simulated_heap, 1) = 2 * BLOCK_SIZE
        /\ get_block_bytes(simulated_heap, 5) = 251 * BLOCK_SIZE

\* Scenario C has run and the three blocks on the list make up the arena.
C12_Witness ==
    /\ ScenarioC_Done
    /\ SumFree(simulated_heap, FreeList) + BLOCK_SIZE = HEAP_SIZE

(***************************************************************************)
(* C13. State exclusivity: no block reachable from the free-list head      *)
(* shares a byte with the block of a live region, so no block index is     *)
(* both on the free list and owned by a caller.                            *)
(***************************************************************************)
C13_Exclusive ==
    \A k \in DOMAIN FreeList : \A i \in DOMAIN live :
        ~Overlap(FreeList[k] * BLOCK_SIZE, get_block_bytes(simulated_heap, FreeList[k]),
                 BlockStart(live[i]), LiveBytes(simulated_heap, live[i]))

\* rdx_malloc has just handed out again a block that was released, below a
\* block that is still live, and free blocks remain.
C13_Witness ==
    /\ op = "malloc"
    /\ status = "ok"
    /\ ret # NULL
    /\ FreeList # <<>>
    /\ \E i \in DOMAIN live : live[i].ptr > ret

\* The index of the block whose payload address is ptr.
BlockIndex(ptr) == (ptr - 1) \div BLOCK_SIZE
\* s without the elements equal to x.
SeqWithout(s, x) == SelectSeq(s, LAMBDA e : e # x)
\* The step is a successful rdx_malloc.
MallocOK == op' = "malloc" /\ status' = "ok" /\ ret' # NULL

(***************************************************************************)
(* C14. Unlinking removes only the chosen block: after a successful        *)
(* rdx_malloc that selects block X, the blocks reachable from the head are *)
(* those reachable before, without X and with the split remainder if one   *)
(* was carved; the other blocks, those before X included, keep their       *)
(* relative order.                                                         *)
(***************************************************************************)
C14_UnlinkOnlyChosen ==
    [][MallocOK =>
          LET X == BlockIndex(ret')
              k == NeededChunks(arg')
              L == simulated_heap[1 + X * BLOCK_SIZE]
              after == ListFrom(simulated_heap', simulated_heap'[0], {})
          IN  IF L > k
              THEN /\ \E j \in DOMAIN after : after[j] = X + k
                   /\ SeqWithout(after, X + k) = SeqWithout(FreeList, X)
              ELSE after = SeqWithout(FreeList, X)]_vars

C16_ReleasePost ==
    [][(op' = "free" /\ status' = "ok") =>
          LET X == BlockIndex(arg')
              c == simulated_heap[arg' - 1]
          IN  /\ simulated_heap'[0] = X
              /\ get_next(simulated_heap', X) = simulated_heap[0]
              /\ get_prev(simulated_heap', X) = 0
              /\ simulated_heap'[1 + X * BLOCK_SIZE] = c
              /\ \A k \in DOMAIN FreeList :
                    get_block_bytes(simulated_heap', FreeList[k])
                       = get_block_bytes(simulated_heap, FreeList[k])
              /\ ListFrom(simulated_heap', simulated_heap'[0], {})
                    = <<X>> \o FreeList]_vars

\* A two-chunk block has just been released onto a non-empty list while
\* another region is live.
C16_Witness ==
    /\ op = "free"
    /\ status = "ok"
    /\ live # <<>>
    /\ Len(FreeList) >= 2
    /\ FreeList[1] = BlockIndex(arg)
    /\ get_block_bytes(simulated_heap, FreeList[1]) = 2 * BLOCK_SIZE

(***************************************************************************)
(* C17. Splitting: when rdx_malloc selects a free block X of L chunks and  *)
(* needs k chunks, the allocated block X has k chunks; if L > k there is   *)
(* afterwards a free block at index X + k with L - k chunks, and it is the *)
(* head of the free list; if L = k no remainder block is created and the   *)
(* head is the successor of X (or 0).                                      *)
(***************************************************************************)
C17_Split ==
    [][MallocOK =>
          LET X == BlockIndex(ret')
              k == NeededChunks(arg')
              L == simulated_heap[1 + X * BLOCK_SIZE]
              after == ListFrom(simulated_heap', simulated_heap'[0], {})
          IN  /\ simulated_heap'[X * BLOCK_SIZE] = k
              /\ IF L > k
                 THEN /\ simulated_heap'[0] = X + k
                      /\ after # <<>>
                      /\ get_block_bytes(simulated_heap', X + k) = (L - k) * BLOCK_SIZE
                 ELSE /\ L = k
                      /\ simulated_heap'[0] = get_next(simulated_heap, X)
                      /\ \A j \in DOMAIN after : after[j] \notin X..(X + L - 1)]_vars

\* init; p = rdx_malloc(0 or 1); rdx_free(p); a one-chunk request has taken
\* the one-chunk head whole, and the head cell names its successor.
C17_Witness ==
    /\ nops = 3
    /\ op = "malloc"
    /\ NeededChunks(arg) = 1
    /\ status = "ok"
    /\ ret = BLOCK_SIZE + 1
    /\ Len(live) = 1
    /\ simulated_heap[BLOCK_SIZE] = 1
    /\ FreeList = <<2>>
    /\ get_block_bytes(simulated_heap, 2) = 254 * BLOCK_SIZE

\* a / b rounded up, for a >= 0 and b > 0.
CeilDiv(a, b) == (a + b - 1) \div b

(***************************************************************************)
(* C18. Allocated header and returned address: a successful rdx_malloc(n)  *)
(* returns arena offset 16 * X + 1 for the selected block X in 1..255,     *)
(* byte 16 * X holds ceil((n + 1) / 16), and the block has room for n      *)
(* payload bytes after the header; rdx_malloc(0) succeeds whenever a free  *)
(* block exists and takes exactly one 16-byte chunk from the free space.   *)
(***************************************************************************)
C18_HeaderAndAddress ==
    /\ [][MallocOK =>
            \E j \in DOMAIN FreeList :
                LET X == FreeList[j]
                    c == simulated_heap'[X * BLOCK_SIZE]
                IN  /\ X \in 1..255
                    /\ ret' = X * BLOCK_SIZE + 1
                    /\ c = CeilDiv(arg' + 1, BLOCK_SIZE)
                    /\ arg' <= c * BLOCK_SIZE - 1
                    /\ ret' + arg' <= HEAP_SIZE]_vars
    /\ [][(status = "ok" /\ NextCall(0) /\ FreeList # <<>>) =>
            /\ status' = "ok"
            /\ ret' # NULL
            /\ simulated_heap'[ret' - 1] = 1
            /\ SumFree(simulated_heap', ListFrom(simulated_heap', simulated_heap'[0], {}))
                  = SumFree(simulated_heap, FreeList) - BLOCK_SIZE]_vars

\* rdx_malloc(0) has returned a one-chunk block above a live two-chunk
\* block.
C18_Witness ==
    /\ op = "malloc"
    /\ arg = 0
    /\ status = "ok"
    /\ ret = 3 * BLOCK_SIZE + 1
    /\ simulated_heap[ret - 1] = 1
    /\ Len(live) = 2
    /\ live[1].n = 16

\* Does a block at index X with c chunks lie in the arena, after slot 0?
InArena(X, c) ==
    /\ X \in 1..255
    /\ c >= 1
    /\ X * BLOCK_SIZE + c * BLOCK_SIZE <= HEAP_SIZE

(***************************************************************************)
(* C19. Bounds invariant: the head cell and every link reachable from it   *)
(* are 0 or an index in 1..255; every block, free or live, with index X    *)
(* and chunk count c has c >= 1 and 16 * X + 16 * c <= HEAP_SIZE; every    *)
(* arena access of rdx_malloc, rdx_free and the helpers is at an offset in *)
(* 0..HEAP_SIZE - 1, so no assert fails; bytes 1..15 of slot 0 are never   *)
(* written.                                                                *)
(***************************************************************************)
C19_Bounds ==
    /\ status = "ok"
    /\ simulated_heap[0] \in 0..255
    /\ \A k \in DOMAIN FreeList :
          /\ InArena(FreeList[k], simulated_heap[1 + FreeList[k] * BLOCK_SIZE])
          /\ get_next(simulated_heap, FreeList[k]) \in 0..255
          /\ get_prev(simulated_heap, FreeList[k]) \in 0..255
    /\ \A i \in DOMAIN live :
          /\ live[i].ptr = BlockIndex(live[i].ptr) * BLOCK_SIZE + 1
          /\ InArena(BlockIndex(live[i].ptr), HeaderChunks(simulated_heap, live[i]))
    /\ \A b \in 1..(BLOCK_SIZE - 1) : simulated_heap[b] = 0

(***************************************************************************)
(* C20. Every block reachable from the free-list head has prev (its byte   *)
(* 0) equal to 0, so rdx_malloc never takes the branch that splices a      *)
(* predecessor's next pointer: whenever it takes a block from the list it  *)
(* overwrites the head cell with that block's successor (or 0), and a      *)
(* split remainder is then pushed in front of that successor.              *)
(***************************************************************************)
C20_PrevAlwaysZero ==
    /\ [](\A k \in DOMAIN FreeList : get_prev(simulated_heap, FreeList[k]) = 0)
    /\ [][MallocOK =>
            LET X == BlockIndex(ret')
                k == NeededChunks(arg')
                L == simulated_heap[1 + X * BLOCK_SIZE]
                succ == get_next(simulated_heap, X)
            IN  /\ get_prev(simulated_heap, X) = 0
                /\ IF L > k
                   THEN /\ simulated_heap'[0] = X + k
                        /\ get_next(simulated_heap', X + k) = succ
                   ELSE simulated_heap'[0] = succ]_vars

\* rdx_malloc has taken a block that was not the head: the head cell got
\* that block's successor and the blocks before it are on no list.
C20_Witness ==
    /\ op = "malloc"
    /\ status = "ok"
    /\ ret # NULL
    /\ FreeList # <<>>
    /\ \A k \in DOMAIN FreeList : get_prev(simulated_heap, FreeList[k]) = 0
    /\ SumLive(simulated_heap, live) + SumFree(simulated_heap, FreeList) + BLOCK_SIZE
          < HEAP_SIZE

====
